---- MODULE Spec2Model ----
(***************************************************************************)
(* NexusMind-AI: the message-send and streaming-response pipeline.         *)
(*                                                                         *)
(* One POST /chats/:id/messages request is followed from the controller    *)
(* (ChatsController.addMessage) through the orchestrator                   *)
(* (ChatsService.streamAiResponse), the store (ChatsService.addMessage,    *)
(* getChatHistory) and the gateway (AiService.streamChat) to the events    *)
(* written on the response.  A step of the model is one continuation of    *)
(* the handler: everything the code runs between the completion of one     *)
(* awaited I/O operation and the next await.                               *)
(*                                                                         *)
(* Strings are sequences of characters, so that += is \o and truthiness    *)
(* of a string is "# <<>>".                                                *)
(***************************************************************************)
EXTENDS Integers, Sequences, FiniteSets, TLC

VARIABLES chats, messages, nextId, clock, turn, calls, client

vars == <<chats, messages, nextId, clock, turn, calls, client>>

(***************************************************************************)
(* Bounds of the model                                                     *)
(***************************************************************************)
MaxDeltas == 2
MaxClock == 2
MaxCalls == 2
MaxFrames == 3
MaxTurnDeltas == 2
MaxSends == 3
MaxPending == 2
MaxShownSends == 1

ChatIds == {"c1"}
Chars == {"a", "b"}
DeltaSet == {<<>>} \cup {<<c>> : c \in Chars}
UserContents == {<<"a">>, <<"b", "a">>}
Roles == {"user", "assistant", "system"}
NoRole == "undefined"

(***************************************************************************)
(* Program constants                                                       *)
(***************************************************************************)
TitleLen == 50
DefaultTitle == <<"NewChat">>
Ellipsis == <<".", ".", ".">>
SaveFailedText == <<"Failed to save message to database">>
SystemPrompt == [role |-> "system", content |-> <<"persona">>]

NotFoundText(chatId) == <<"Chat with ID ", chatId, " not found">>
NotFoundException(chatId) == [name |-> "NotFoundException", message |-> NotFoundText(chatId)]
DbError == [name |-> "PrismaClientKnownRequestError", message |-> <<"database error">>]
BadRequestException == [name |-> "BadRequestException", message |-> <<"content should not be empty">>]
NoException == [name |-> "none", message |-> <<>>]

(***************************************************************************)
(* Stream fragments (StreamChunk)                                          *)
(***************************************************************************)
Chunk(t, c, e, m) == [type |-> t, content |-> c, error |-> e, messageId |-> m]
ContentChunk(c) == Chunk("content", c, <<>>, 0)
DoneChunk == Chunk("done", <<>>, <<>>, 0)
ErrorChunk(e) == Chunk("error", <<>>, e, 0)
CompleteChunk(m) == Chunk("complete", <<>>, <<>>, m)
NoChunk == Chunk("null", <<>>, <<>>, 0)

(***************************************************************************)
(* Gateway: classification of backend failures (AiService.streamChat,      *)
(* catch block)                                                            *)
(***************************************************************************)
NoStatus == 0
BackendErrors ==
  { [status |-> 401, statusCode |-> NoStatus, code |-> "none", message |-> <<"Incorrect API key">>],
    [status |-> NoStatus, statusCode |-> 429, code |-> "none", message |-> <<"Rate limit">>],
    [status |-> NoStatus, statusCode |-> NoStatus, code |-> "ECONNREFUSED", message |-> <<"connect ECONNREFUSED">>],
    [status |-> NoStatus, statusCode |-> NoStatus, code |-> "none", message |-> <<"Request ", "timeout">>],
    [status |-> 502, statusCode |-> NoStatus, code |-> "none", message |-> <<"Bad gateway">>],
    [status |-> NoStatus, statusCode |-> NoStatus, code |-> "none", message |-> <<"socket hang up">>],
    [status |-> NoStatus, statusCode |-> NoStatus, code |-> "none", message |-> <<"Unexpected end of JSON input">>] }
NoBackendError == [status |-> NoStatus, statusCode |-> NoStatus, code |-> "none", message |-> <<>>]

\* String.prototype.includes on a message made of words; "quota" is a
\* substring of "insufficient_quota".
Includes(msg, kw) ==
  \E i \in 1..Len(msg) : msg[i] = kw \/ (kw = "quota" /\ msg[i] = "insufficient_quota")

HasStatus(err, s) == err.status = s \/ err.statusCode = s

FriendlyError(err) ==
  IF HasStatus(err, 401) THEN <<"AI auth failed, check API Key">>
  ELSE IF HasStatus(err, 402) THEN <<"AI unavailable, check balance or config">>
  ELSE IF HasStatus(err, 403) THEN <<"AI access denied, check API permissions">>
  ELSE IF HasStatus(err, 429) THEN <<"AI too many requests, retry later">>
  ELSE IF HasStatus(err, 500) THEN <<"AI internal error, retry later">>
  ELSE IF HasStatus(err, 503) THEN <<"AI unavailable, retry later">>
  ELSE IF err.code \in {"ECONNREFUSED", "ENOTFOUND"} THEN <<"cannot reach AI service, check network and BASE_URL">>
  ELSE IF Includes(err.message, "timeout") THEN <<"AI timed out, retry later">>
  ELSE IF Includes(err.message, "insufficient_quota") \/ Includes(err.message, "quota")
       THEN <<"AI unavailable, check balance or config">>
  ELSE IF Includes(err.message, "invalid_api_key") THEN <<"AI auth failed, check API Key">>
  ELSE IF Includes(err.message, "model_not_found") THEN <<"AI model not found, check MODEL">>
  ELSE <<"AI service error: ">> \o err.message

\* what streamChat yields for one backend chunk with delta content d
GwOnDelta(d) == IF d # <<>> THEN <<ContentChunk(d)>> ELSE <<>>

\* what streamChat yields when the backend stream is exhausted
GwOnEnd == <<DoneChunk>>

\* variant: 'yield done' sits after the try/catch and also runs on failure
GwOnError_ThenDone(err) == <<ErrorChunk(FriendlyError(err)), DoneChunk>>

\* what streamChat yields when create or the backend stream rejects with err
GwOnError(err) == <<ErrorChunk(FriendlyError(err))>>

\* a yield of streamChat
GwYield(T, chunk) == [T EXCEPT !.gwYielded = Append(@, chunk)]

\* allMessages: the persona is prepended unless the caller supplied one.
AllMessages(history) ==
  IF Len(history) > 0 /\ history[1].role = "system" THEN history
  ELSE <<SystemPrompt>> \o history

(***************************************************************************)
(* Store                                                                   *)
(***************************************************************************)
NoChat == [exists |-> FALSE, title |-> <<>>, updatedAt |-> 0]

\* variant: the ellipsis is appended from 50 characters on
DeriveTitle_FromLimit(content) ==
  IF Len(content) >= TitleLen THEN SubSeq(content, 1, TitleLen) \o Ellipsis ELSE content

\* content.slice(0, 50) + (content.length > 50 ? '...' : '')
DeriveTitle(content) ==
  IF Len(content) > TitleLen THEN SubSeq(content, 1, TitleLen) \o Ellipsis ELSE content

\* variant: the update carries the title only
ChatUpdate_TitleOnly(row, chat, role, content, now) ==
  [row EXCEPT !.title = IF chat.title = DefaultTitle /\ role = "user"
                          THEN DeriveTitle(content) ELSE @]

\* the data of prisma.chat.update inside the transaction; chat is the row
\* read by the preceding findUnique
ChatUpdate(row, chat, role, content, now) ==
  [row EXCEPT !.title = IF chat.title = DefaultTitle /\ role = "user"
                          THEN DeriveTitle(content) ELSE @,
              !.updatedAt = now]

\* variant: the foreign key restricts nothing and cascades nothing, the
\* messages of a deleted chat stay
DeleteChat_NoCascade(msgs, chatId) == msgs

\* prisma.chat.delete: ON DELETE CASCADE removes the chat's messages with it
DeleteChat(msgs, chatId) == SelectSeq(msgs, LAMBDA m : m.chatId # chatId)

\* variant: an upsert that overwrites the chat's latest message of the role
InsertMessage_Upsert(msgs, msg) ==
  IF \E i \in 1..Len(msgs) : msgs[i].chatId = msg.chatId /\ msgs[i].role = msg.role
  THEN LET i == CHOOSE i \in 1..Len(msgs) :
                  /\ msgs[i].chatId = msg.chatId /\ msgs[i].role = msg.role
                  /\ \A j \in (i + 1)..Len(msgs) : ~(msgs[j].chatId = msg.chatId /\ msgs[j].role = msg.role)
       IN [msgs EXCEPT ![i].content = msg.content]
  ELSE Append(msgs, msg)

\* prisma.message.create
InsertMessage(msgs, msg) == Append(msgs, msg)

NewMessage(id, chatId, role, content, now) ==
  [id |-> id, chatId |-> chatId, role |-> role, content |-> content, createdAt |-> now]

\* findOne(...).messages: the chat's rows with orderBy createdAt asc; the
\* column has millisecond resolution and the order of rows with equal
\* createdAt is left to the database
FindOneMessages(chatId) ==
  LET own == SelectSeq(messages, LAMBDA m : m.chatId = chatId)
      n == Len(own)
      Orders == {p \in [1..n -> 1..n] :
                   /\ \A i, j \in 1..n : i # j => p[i] # p[j]
                   /\ \A i, j \in 1..n : i < j => own[p[i]].createdAt <= own[p[j]].createdAt}
  IN {[i \in 1..n |-> own[p[i]]] : p \in Orders}

\* getChatHistory: the rows mapped to role and content
HistoryOf(rows) ==
  [i \in 1..Len(rows) |-> [role |-> rows[i].role, content |-> rows[i].content]]

\* the assistant messages of a chat with an id of at least firstId
AssistantMessages(chatId, firstId) ==
  SelectSeq(messages, LAMBDA m : m.chatId = chatId /\ m.role = "assistant" /\ m.id >= firstId)

(***************************************************************************)
(* Transport adapter: the relay loop of ChatsController.addMessage         *)
(***************************************************************************)
\* res.write + flush; the client only receives what is written while it is
\* still connected
Write(T, chunk) ==
  [T EXCEPT !.events = Append(@, chunk),
            !.received = IF T.connected THEN Append(@, chunk) ELSE @]

\* res.end()
End(T) == [T EXCEPT !.ended = TRUE, !.pc = "ended"]

BreaksLoop(chunk) == chunk.type = "complete" \/ chunk.type = "error"

\* loop body for one chunk yielded by the orchestrator: write it, and on
\* 'complete' or 'error' break, which returns the generator, and end the
\* response; otherwise the generator is resumed (ended stays FALSE)
CtlOnChunk(T, chunk) ==
  IF BreaksLoop(chunk) THEN End(Write(T, chunk)) ELSE Write(T, chunk)

\* variant: the catch block only logs
CtlOnThrow_Silent(T, exc) == End([T EXCEPT !.caughtExc = exc])

\* catch (error): one error event with the exception's message, then end
CtlOnThrow(T, exc) == End(Write([T EXCEPT !.caughtExc = exc], ErrorChunk(exc.message)))

\* the generator finished without a break
CtlOnReturn(T) == End(T)

\* non-streaming mode
CtlCreated(T, msg) ==
  [T EXCEPT !.contentType = "json", !.status = 201, !.body = msg.id, !.ended = TRUE, !.pc = "ended"]

\* an exception leaving the handler is answered by the framework
CtlRejected(T, exc) ==
  [T EXCEPT !.contentType = "json",
            !.status = IF exc.name = "NotFoundException" THEN 404
                       ELSE IF exc.name = "BadRequestException" THEN 400 ELSE 500,
            !.ended = TRUE, !.pc = "ended"]

(***************************************************************************)
(* Orchestrator: ChatsService.streamAiResponse                             *)
(***************************************************************************)
\* variant: the accumulated text is not tested
ShouldSave_IgnoresEmpty(full, streamError) == streamError = NoChunk

\* "fullResponse && !streamError"
ShouldSave(full, streamError) == full # <<>> /\ streamError = NoChunk

\* step 4, reached when the for-await over the gateway is left
OrchAfterLoop(T) ==
  IF ShouldSave(T.full, T.streamError)
  THEN [T EXCEPT !.phase = "asst", !.pc = "find", !.asstAttempts = @ + 1]
  ELSE CtlOnReturn(T)

\* variant: an error chunk ends the loop like 'done' does
OrchOnChunk_ErrorAsDone(T, chunk) ==
  IF chunk.type = "content" /\ chunk.content # <<>>
  THEN LET Y == CtlOnChunk([T EXCEPT !.full = @ \o chunk.content], chunk)
       IN IF Y.ended THEN Y ELSE [Y EXCEPT !.pc = "gw_stream"]
  ELSE IF chunk.type = "error" \/ chunk.type = "done"
  THEN OrchAfterLoop(T)
  ELSE LET Y == CtlOnChunk(T, chunk)
       IN IF Y.ended THEN Y ELSE [Y EXCEPT !.pc = "gw_stream"]

\* variant: the accumulator is built in front instead of at the end
OrchOnChunk_Prepend(T, chunk) ==
  IF chunk.type = "content" /\ chunk.content # <<>>
  THEN LET Y == CtlOnChunk([T EXCEPT !.full = chunk.content \o @], chunk)
       IN IF Y.ended THEN Y ELSE [Y EXCEPT !.pc = "gw_stream"]
  ELSE IF chunk.type = "error"
  THEN LET Y == CtlOnChunk([T EXCEPT !.streamError = chunk], chunk)
       IN IF Y.ended THEN Y ELSE OrchAfterLoop(Y)
  ELSE IF chunk.type = "done"
  THEN OrchAfterLoop(T)
  ELSE LET Y == CtlOnChunk(T, chunk)
       IN IF Y.ended THEN Y ELSE [Y EXCEPT !.pc = "gw_stream"]

\* variant: 'done' is relayed like any other chunk before the loop is left
OrchOnChunk_RelayDone(T, chunk) ==
  IF chunk.type = "content" /\ chunk.content # <<>>
  THEN LET Y == CtlOnChunk([T EXCEPT !.full = @ \o chunk.content], chunk)
       IN IF Y.ended THEN Y ELSE [Y EXCEPT !.pc = "gw_stream"]
  ELSE IF chunk.type = "error"
  THEN LET Y == CtlOnChunk([T EXCEPT !.streamError = chunk], chunk)
       IN IF Y.ended THEN Y ELSE OrchAfterLoop(Y)
  ELSE LET Y == CtlOnChunk(T, chunk)
       IN IF Y.ended THEN Y
          ELSE IF chunk.type = "done" THEN OrchAfterLoop(Y)
          ELSE [Y EXCEPT !.pc = "gw_stream"]

\* variant: a gateway error chunk is rethrown instead of yielded
OrchOnChunk_ErrorThrows(T, chunk) ==
  IF chunk.type = "content" /\ chunk.content # <<>>
  THEN LET Y == CtlOnChunk([T EXCEPT !.full = @ \o chunk.content], chunk)
       IN IF Y.ended THEN Y ELSE [Y EXCEPT !.pc = "gw_stream"]
  ELSE IF chunk.type = "error"
  THEN CtlOnThrow(T, [name |-> "Error", message |-> chunk.error])
  ELSE IF chunk.type = "done"
  THEN OrchAfterLoop(T)
  ELSE LET Y == CtlOnChunk(T, chunk)
       IN IF Y.ended THEN Y ELSE [Y EXCEPT !.pc = "gw_stream"]

\* body of the for-await over aiService.streamChat for one gateway chunk;
\* after each yield the generator only goes on if the consumer resumed it
OrchOnChunk(T, chunk) ==
  IF chunk.type = "content" /\ chunk.content # <<>>
  THEN LET Y == CtlOnChunk([T EXCEPT !.full = @ \o chunk.content], chunk)
       IN IF Y.ended THEN Y ELSE [Y EXCEPT !.pc = "gw_stream"]
  ELSE IF chunk.type = "error"
  THEN LET Y == CtlOnChunk([T EXCEPT !.streamError = chunk], chunk)
       IN IF Y.ended THEN Y ELSE OrchAfterLoop(Y)
  ELSE IF chunk.type = "done"
  THEN OrchAfterLoop(T)
  ELSE LET Y == CtlOnChunk(T, chunk)
       IN IF Y.ended THEN Y ELSE [Y EXCEPT !.pc = "gw_stream"]

\* variant: the save sits inside a loop and is run a second time
OrchOnSaved_SaveAgain(T, msg) ==
  IF T.asstAttempts < 2
  THEN [T EXCEPT !.asstMsgId = msg.id, !.pc = "find", !.asstAttempts = @ + 1]
  ELSE End(Write([T EXCEPT !.asstMsgId = msg.id], CompleteChunk(msg.id)))

\* variant: 'complete' carries the id of the turn's user message
OrchOnSaved_UserId(T, msg) ==
  LET Y == CtlOnChunk([T EXCEPT !.asstMsgId = msg.id], CompleteChunk(T.userMsgId))
  IN IF Y.ended THEN Y ELSE CtlOnReturn(Y)

\* step 4 after addMessage resolved with msg: yield 'complete'
OrchOnSaved(T, msg) ==
  LET Y == CtlOnChunk([T EXCEPT !.asstMsgId = msg.id], CompleteChunk(msg.id))
  IN IF Y.ended THEN Y ELSE CtlOnReturn(Y)

\* variant: 'complete' is sent although the save failed
OrchOnSaveFailed_Complete(T) == End(Write(T, CompleteChunk(nextId)))

\* variant: a failed save is retried once
OrchOnSaveFailed_Retry(T) ==
  IF T.asstAttempts < 2
  THEN [T EXCEPT !.pc = "find", !.asstAttempts = @ + 1]
  ELSE End(Write(T, ErrorChunk(SaveFailedText)))

\* step 4 after addMessage rejected: yield the save-failure error
OrchOnSaveFailed(T) ==
  LET Y == CtlOnChunk(T, ErrorChunk(SaveFailedText))
  IN IF Y.ended THEN Y ELSE CtlOnReturn(Y)

\* step 1 after addMessage resolved: go on to getChatHistory
OrchOnUserSaved(T, msg) == [T EXCEPT !.userMsgId = msg.id, !.pc = "h_find"]

\* variant: a failed save of the user message is swallowed
OrchOnUserSaveFailed_Swallow(T, exc) == [T EXCEPT !.pc = "h_find"]

\* step 1 after addMessage rejected: the exception leaves the generator and
\* is caught by the relay loop's catch
OrchOnUserSaveFailed(T, exc) == CtlOnThrow(T, exc)

\* continuation of addMessage's caller when addMessage resolved with msg
OnSaved(T, msg) ==
  CASE T.phase = "ns" -> CtlCreated(T, msg)
    [] T.phase = "user" -> OrchOnUserSaved(T, msg)
    [] T.phase = "asst" -> OrchOnSaved(T, msg)

\* continuation of addMessage's caller when addMessage rejected with exc
OnSaveFailed(T, exc) ==
  CASE T.phase = "ns" -> CtlRejected(T, exc)
    [] T.phase = "user" -> OrchOnUserSaveFailed(T, exc)
    [] T.phase = "asst" -> OrchOnSaveFailed(T)

(***************************************************************************)
(* Initial state                                                           *)
(***************************************************************************)
\* the request bodies a client can post; CreateMessageDto declares which
\* of them are valid
Requests ==
  [chatId : ChatIds, content : UserContents \cup {<<>>}, stream : BOOLEAN, role : {NoRole, "assistant"}]

\* @IsString() @IsNotEmpty() content; @IsOptional() @IsEnum(MessageRole) role
ValidDto(r) == r.content # <<>> /\ r.role \in Roles \cup {NoRole}

InitTurn(r, firstId) ==
  [req |-> r, baseId |-> firstId, pc |-> "recv", phase |-> "none",
   contentType |-> "none", status |-> 0, body |-> 0, events |-> <<>>, ended |-> FALSE,
   full |-> <<>>, streamError |-> NoChunk, chat |-> NoChat, history |-> <<>>,
   gwCalls |-> 0, gwSent |-> <<>>, nDeltas |-> 0, gwYielded |-> <<>>,
   userMsgId |-> 0, asstMsgId |-> 0, asstAttempts |-> 0,
   connected |-> TRUE, received |-> <<>>, leftAt |-> "none", leftYielded |-> 0,
   stamp |-> 0, gwErr |-> NoBackendError, caughtExc |-> NoException]

\* the store before the request: the chat is absent, freshly created, or
\* holds one earlier completed turn
FreshChat == [exists |-> TRUE, title |-> DefaultTitle, updatedAt |-> 0]
EarlierTurn(c) ==
  <<NewMessage(1, c, "user", <<"a">>, 0), NewMessage(2, c, "assistant", <<"b">>, 1)>>
InitialStores ==
  {[chats |-> [c \in ChatIds |-> NoChat], messages |-> <<>>, clock |-> 0],
   [chats |-> [c \in ChatIds |-> FreshChat], messages |-> <<>>, clock |-> 0]}
  \cup {[chats |-> [c \in ChatIds |->
                      IF c = d
                      THEN LET first == ChatUpdate(FreshChat, FreshChat, "user", <<"a">>, 0)
                           IN ChatUpdate(first, first, "assistant", <<"b">>, 1)
                      ELSE FreshChat],
          messages |-> EarlierTurn(d), clock |-> 1] : d \in ChatIds}

Init ==
  /\ \E st \in InitialStores :
       /\ chats = st.chats
       /\ messages = st.messages
       /\ nextId = Len(st.messages) + 1
       /\ clock = st.clock
  /\ calls = <<>>
  /\ client = <<>>
  /\ \E r \in Requests :
       /\ turn = InitTurn(r, nextId)
       /\ r.stream => r.role = NoRole

(***************************************************************************)
(* Actions                                                                 *)
(***************************************************************************)
\* ChatsController.addMessage up to the first await
Receive ==
  /\ turn.pc = "recv"
  /\ ValidDto(turn.req)
  /\ turn' = IF ~turn.req.stream
             THEN [turn EXCEPT !.phase = "ns", !.pc = "find"]
             ELSE [turn EXCEPT !.contentType = "sse", !.phase = "user", !.pc = "find"]
  /\ UNCHANGED <<chats, messages, nextId, clock, calls, client>>

\* the validation pipe answers a body that violates CreateMessageDto with
\* 400 before the handler is entered
RejectInvalid ==
  /\ turn.pc = "recv"
  /\ ~ValidDto(turn.req)
  /\ turn' = CtlRejected(turn, BadRequestException)
  /\ UNCHANGED <<chats, messages, nextId, clock, calls, client>>

\* variant: the role of the request body is ignored
SaveRole_AlwaysUser(T) ==
  CASE T.phase = "ns" -> "user"
    [] T.phase = "user" -> "user"
    [] T.phase = "asst" -> "assistant"

\* the role argument of addMessage: dto.role ?? 'user' without the stream
\* flag, 'user' and 'assistant' in the two saves of a streaming turn
SaveRole(T) ==
  CASE T.phase = "ns" -> IF T.req.role = NoRole THEN "user" ELSE T.req.role
    [] T.phase = "user" -> "user"
    [] T.phase = "asst" -> "assistant"

SaveContent(T) == IF T.phase = "asst" THEN T.full ELSE T.req.content

\* addMessage: prisma.chat.findUnique resolves
AddMessageFind ==
  /\ turn.pc = "find"
  /\ \E dbOk \in BOOLEAN, date \in clock..MaxClock :
       IF ~dbOk
       THEN turn' = OnSaveFailed(turn, DbError) /\ UNCHANGED clock
       ELSE IF ~chats[turn.req.chatId].exists
       THEN turn' = OnSaveFailed(turn, NotFoundException(turn.req.chatId)) /\ UNCHANGED clock
       ELSE /\ turn' = [turn EXCEPT !.chat = chats[turn.req.chatId], !.stamp = date, !.pc = "tx"]
            /\ clock' = date
  /\ UNCHANGED <<chats, messages, nextId, calls, client>>

\* addMessage: prisma.$transaction([message.create, chat.update]) resolves
AddMessageTx ==
  /\ turn.pc = "tx"
  /\ \E dbOk \in BOOLEAN, now \in clock..MaxClock :
       LET c == turn.req.chatId
           msg == NewMessage(nextId, c, SaveRole(turn), SaveContent(turn), now)
       IN IF dbOk /\ chats[c].exists
          THEN /\ messages' = InsertMessage(messages, msg)
               /\ chats' = [chats EXCEPT ![c] = ChatUpdate(@, turn.chat, SaveRole(turn), SaveContent(turn), turn.stamp)]
               /\ nextId' = nextId + 1
               /\ clock' = now
               /\ turn' = OnSaved(turn, msg)
               /\ UNCHANGED <<calls, client>>
          ELSE /\ turn' = OnSaveFailed(turn, DbError)
               /\ UNCHANGED <<chats, messages, nextId, clock, calls, client>>

\* getChatHistory: findOne resolves; on success streamChat is entered and
\* awaits openai.chat.completions.create
GetChatHistory ==
  /\ turn.pc = "h_find"
  /\ \E dbOk \in BOOLEAN, rows \in FindOneMessages(turn.req.chatId) :
       turn' = IF ~dbOk THEN CtlOnThrow(turn, DbError)
               ELSE IF ~chats[turn.req.chatId].exists
               THEN CtlOnThrow(turn, NotFoundException(turn.req.chatId))
               ELSE [turn EXCEPT !.history = HistoryOf(rows),
                                 !.gwSent = AllMessages(HistoryOf(rows)),
                                 !.gwCalls = @ + 1,
                                 !.pc = "gw_create"]
  /\ UNCHANGED <<chats, messages, nextId, clock, calls, client>>

\* streamChat: completions.create resolves with a stream
GatewayOpen ==
  /\ turn.pc = "gw_create"
  /\ turn' = [turn EXCEPT !.pc = "gw_stream"]
  /\ UNCHANGED <<chats, messages, nextId, clock, calls, client>>

\* streamChat: completions.create or the backend stream rejects
GatewayFail ==
  /\ turn.pc \in {"gw_create", "gw_stream"}
  /\ \E err \in BackendErrors :
       LET chunk == GwOnError(err)[1]
       IN turn' = OrchOnChunk(GwYield([turn EXCEPT !.gwErr = err], chunk), chunk)
  /\ UNCHANGED <<chats, messages, nextId, clock, calls, client>>

\* streamChat: the backend stream delivers a chunk with delta content d
GatewayDelta ==
  /\ turn.pc = "gw_stream"
  /\ turn.nDeltas < MaxDeltas
  /\ \E d \in DeltaSet :
       LET N == [turn EXCEPT !.nDeltas = @ + 1]
       IN turn' = IF GwOnDelta(d) # <<>>
                  THEN OrchOnChunk(GwYield(N, GwOnDelta(d)[1]), GwOnDelta(d)[1])
                  ELSE N
  /\ UNCHANGED <<chats, messages, nextId, clock, calls, client>>

\* streamChat: the backend stream is exhausted
GatewayDone ==
  /\ turn.pc = "gw_stream"
  /\ turn' = OrchOnChunk(GwYield(turn, GwOnEnd[1]), GwOnEnd[1])
  /\ UNCHANGED <<chats, messages, nextId, clock, calls, client>>

\* the client closes or aborts the connection; the handler registers no
\* listener for it
ClientDisconnect ==
  /\ turn.connected
  /\ turn.pc \notin {"recv", "ended"}
  /\ turn' = [turn EXCEPT !.connected = FALSE, !.leftAt = turn.pc,
                          !.leftYielded = Len(turn.gwYielded)]
  /\ UNCHANGED <<chats, messages, nextId, clock, calls, client>>

Next ==
  \/ Receive
  \/ RejectInvalid
  \/ AddMessageFind
  \/ AddMessageTx
  \/ GetChatHistory
  \/ GatewayOpen
  \/ GatewayFail
  \/ GatewayDelta
  \/ GatewayDone
  \/ ClientDisconnect

Spec == Init /\ [][Next]_vars

(***************************************************************************)
(* AiService.streamChat on its own, consumed to the end by a for-await     *)
(* that never breaks                                                       *)
(***************************************************************************)
Histories ==
  {<<[role |-> "user", content |-> <<"a">>]>>,
   <<[role |-> "system", content |-> <<"b">>], [role |-> "user", content |-> <<"a">>]>>,
   <<>>}

IdleRequest == [chatId |-> "c1", content |-> <<"a">>, stream |-> TRUE, role |-> NoRole]

InitGateway ==
  /\ chats = [c \in ChatIds |-> FreshChat]
  /\ messages = <<>>
  /\ nextId = 1
  /\ clock = 0
  /\ calls = <<>>
  /\ client = <<>>
  /\ \E h \in Histories :
       turn = [InitTurn(IdleRequest, 1) EXCEPT !.pc = "gw_create", !.history = h,
                                                !.gwSent = AllMessages(h), !.gwCalls = 1]

RECURSIVE GwYieldAll(_, _)
GwYieldAll(T, chunksSeq) ==
  IF chunksSeq = <<>> THEN T ELSE GwYieldAll(GwYield(T, Head(chunksSeq)), Tail(chunksSeq))

\* completions.create resolves with a stream
DrainOpen ==
  /\ turn.pc = "gw_create"
  /\ turn' = [turn EXCEPT !.pc = "gw_stream"]
  /\ UNCHANGED <<chats, messages, nextId, clock, calls, client>>

\* the backend stream delivers a chunk
DrainDelta ==
  /\ turn.pc = "gw_stream"
  /\ turn.nDeltas < MaxDeltas
  /\ \E d \in DeltaSet : turn' = GwYieldAll([turn EXCEPT !.nDeltas = @ + 1], GwOnDelta(d))
  /\ UNCHANGED <<chats, messages, nextId, clock, calls, client>>

\* the backend stream is exhausted; the generator returns after its yield
DrainEnd ==
  /\ turn.pc = "gw_stream"
  /\ turn' = [GwYieldAll(turn, GwOnEnd) EXCEPT !.pc = "gw_returned"]
  /\ UNCHANGED <<chats, messages, nextId, clock, calls, client>>

\* create or the backend stream rejects; the generator returns after the
\* yield in its catch block
DrainFail ==
  /\ turn.pc \in {"gw_create", "gw_stream"}
  /\ \E err \in BackendErrors :
       turn' = [GwYieldAll([turn EXCEPT !.gwErr = err], GwOnError(err)) EXCEPT !.pc = "gw_returned"]
  /\ UNCHANGED <<chats, messages, nextId, clock, calls, client>>

NextGateway ==
  \/ DrainOpen
  \/ DrainDelta
  \/ DrainEnd
  \/ DrainFail

SpecGateway == InitGateway /\ [][NextGateway]_vars

(***************************************************************************)
(* The store under concurrent callers: ChatsService.addMessage,            *)
(* updateTitle, remove and findOne issued by independent requests.  Each   *)
(* caller runs one call at a time; a call is a findUnique followed, when   *)
(* the chat was found, by one write.  new Date() is read from the clock of *)
(* the node process in the continuation that builds the write.             *)
(***************************************************************************)
Callers == {1, 2}

Text(n) == [i \in 1..n |-> "a"]

AppendInputs ==
  {[role |-> "user", content |-> c] : c \in {<<"a">>, DefaultTitle, Text(TitleLen), Text(TitleLen + 1)}}
  \cup {[role |-> r, content |-> <<"b">>] : r \in {"assistant", "system"}}

TitleInputs == {DefaultTitle, <<"t">>}

IdleCall ==
  [op |-> "none", chatId |-> "c1", role |-> NoRole, content |-> <<>>, pc |-> "idle",
   chat |-> NoChat, stamp |-> 0, result |-> NoException.name, returned |-> 0]

InitStore ==
  /\ \E st \in InitialStores :
       /\ chats = st.chats
       /\ messages = st.messages
       /\ nextId = Len(st.messages) + 1
       /\ clock = st.clock
  /\ calls = [by |-> [k \in Callers |-> IdleCall], made |-> 0]
  /\ client = <<>>
  /\ turn = [InitTurn(IdleRequest, 1) EXCEPT !.pc = "idle"]

\* a call is made and its findUnique resolves: NotFoundException when the
\* chat is absent, otherwise the row is kept for the write that follows
CallFound(k, op, c, role, content) ==
  [calls EXCEPT
     !.made = @ + 1,
     !.by[k] = IF chats[c].exists
               THEN [op |-> op, chatId |-> c, role |-> role, content |-> content, pc |-> "write",
                     chat |-> chats[c], stamp |-> clock, result |-> NoException.name,
                     returned |-> 0]
               ELSE [IdleCall EXCEPT !.op = op, !.chatId = c,
                                     !.result = NotFoundException(c).name]]

\* the call returns or throws; its arguments and locals are gone
CallFinished(k, result, id) ==
  [calls EXCEPT !.by[k] = [IdleCall EXCEPT !.op = calls.by[k].op, !.chatId = calls.by[k].chatId,
                                           !.result = result, !.returned = id]]

CanCall(k) == calls.by[k].pc = "idle" /\ calls.made < MaxCalls

CallAddMessageFind(k) ==
  /\ CanCall(k)
  /\ \E c \in ChatIds, in \in AppendInputs :
       calls' = CallFound(k, "addMessage", c, in.role, in.content)
  /\ UNCHANGED <<chats, messages, nextId, clock, turn, client>>

\* the transaction commits both writes, or fails on the foreign key and
\* the missing row and commits nothing
CallAddMessageTx(k) ==
  /\ calls.by[k].pc = "write" /\ calls.by[k].op = "addMessage"
  /\ LET call == calls.by[k]
         msg == NewMessage(nextId, call.chatId, call.role, call.content, clock)
     IN IF chats[call.chatId].exists
        THEN /\ messages' = InsertMessage(messages, msg)
             /\ chats' = [chats EXCEPT ![call.chatId] =
                                ChatUpdate(@, call.chat, call.role, call.content, call.stamp)]
             /\ nextId' = nextId + 1
             /\ calls' = CallFinished(k, "ok", msg.id)
        ELSE /\ calls' = CallFinished(k, DbError.name, 0)
             /\ UNCHANGED <<chats, messages, nextId>>
  /\ UNCHANGED <<clock, turn, client>>

CallUpdateTitleFind(k) ==
  /\ CanCall(k)
  /\ \E c \in ChatIds, title \in TitleInputs :
       calls' = CallFound(k, "updateTitle", c, NoRole, title)
  /\ UNCHANGED <<chats, messages, nextId, clock, turn, client>>

\* prisma.chat.update({ data: { title } }); whether the client also
\* refreshes updated_at is decided by the schema, which is not among the
\* sources: both outcomes are allowed
CallUpdateTitleUpdate(k) ==
  /\ calls.by[k].pc = "write" /\ calls.by[k].op = "updateTitle"
  /\ LET call == calls.by[k]
     IN IF chats[call.chatId].exists
        THEN /\ \E touch \in BOOLEAN :
                  chats' = [chats EXCEPT ![call.chatId].title = call.content,
                                         ![call.chatId].updatedAt = IF touch THEN clock ELSE @]
             /\ calls' = CallFinished(k, "ok", 0)
        ELSE /\ calls' = CallFinished(k, DbError.name, 0)
             /\ UNCHANGED chats
  /\ UNCHANGED <<messages, nextId, clock, turn, client>>

CallRemoveFind(k) ==
  /\ CanCall(k)
  /\ \E c \in ChatIds :
       calls' = CallFound(k, "remove", c, NoRole, <<>>)
  /\ UNCHANGED <<chats, messages, nextId, clock, turn, client>>

CallRemoveDelete(k) ==
  /\ calls.by[k].pc = "write" /\ calls.by[k].op = "remove"
  /\ LET call == calls.by[k]
     IN IF chats[call.chatId].exists
        THEN /\ chats' = [chats EXCEPT ![call.chatId] = NoChat]
             /\ messages' = DeleteChat(messages, call.chatId)
             /\ calls' = CallFinished(k, "ok", 0)
        ELSE /\ calls' = CallFinished(k, DbError.name, 0)
             /\ UNCHANGED <<chats, messages>>
  /\ UNCHANGED <<nextId, clock, turn, client>>

\* findOne: the chat with its messages, or NotFoundException; returned is
\* the number of messages in the answer
CallFindOne(k) ==
  /\ CanCall(k)
  /\ \E c \in ChatIds :
       calls' = IF chats[c].exists
                THEN [calls EXCEPT !.made = @ + 1,
                                   !.by[k] = [IdleCall EXCEPT !.op = "findOne", !.chatId = c,
                                                              !.result = "ok",
                                                              !.returned = Len(CHOOSE rows \in FindOneMessages(c) : TRUE)]]
                ELSE CallFound(k, "findOne", c, NoRole, <<>>)
  /\ UNCHANGED <<chats, messages, nextId, clock, turn, client>>

\* findAll: the number of chats in the answer
CallFindAll(k) ==
  /\ CanCall(k)
  /\ calls' = [calls EXCEPT !.made = @ + 1,
                            !.by[k] = [IdleCall EXCEPT !.op = "findAll", !.result = "ok",
                                         !.returned = Cardinality({c \in ChatIds : chats[c].exists})]]
  /\ UNCHANGED <<chats, messages, nextId, clock, turn, client>>

\* a millisecond passes
Tick ==
  /\ clock < MaxClock
  /\ clock' = clock + 1
  /\ UNCHANGED <<chats, messages, nextId, turn, calls, client>>

NextStore ==
  \/ \E k \in Callers : CallAddMessageFind(k)
  \/ \E k \in Callers : CallAddMessageTx(k)
  \/ \E k \in Callers : CallUpdateTitleFind(k)
  \/ \E k \in Callers : CallUpdateTitleUpdate(k)
  \/ \E k \in Callers : CallRemoveFind(k)
  \/ \E k \in Callers : CallRemoveDelete(k)
  \/ \E k \in Callers : CallFindOne(k)
  \/ \E k \in Callers : CallFindAll(k)
  \/ Tick

SpecStore == InitStore /\ [][NextStore]_vars

(***************************************************************************)
(* The browser client: ChatContext.sendMessage with its three callbacks,   *)
(* stopStreaming, and the SSE consumer sendMessageStream of the api        *)
(* client.  The response body is a sequence of tokens; a network read      *)
(* delivers any non-empty prefix of what is still to come.  A step is one  *)
(* continuation of sendMessageStream between two awaits, or one user       *)
(* action.                                                                 *)
(***************************************************************************)
TEMP_ID_PREFIX == "temp_"

TempId(kind, now) == [prefix |-> TEMP_ID_PREFIX, rest |-> <<kind, now>>]
DurableId(m) == [prefix |-> "", rest |-> <<"db_", m>>]

Tok(t) == [t |-> t, chunk |-> NoChunk]
Json(chunk) == [t |-> "json", chunk |-> chunk]
LF == Tok("LF")
DataPrefix == <<Tok("da"), Tok("ta: ")>>

\* res.write(`data: ${JSON.stringify(chunk)}\n\n`)
Frame(chunk) == DataPrefix \o <<Tok("{"), Json(chunk), Tok("}")>> \o <<LF, LF>>

\* a data line whose payload is not valid JSON
MalformedFrame == DataPrefix \o <<Tok("{"), Tok("garbage")>> \o <<LF, LF>>

ClientChunks ==
  {ContentChunk(<<"a">>), ContentChunk(<<"b">>), CompleteChunk(7), ErrorChunk(<<"boom">>)}

FrameSet == {Frame(c) : c \in ClientChunks} \cup {MalformedFrame}

FrameLists == UNION {[1..n -> FrameSet] : n \in 0..MaxFrames}

RECURSIVE Flatten(_)
Flatten(seqs) == IF seqs = <<>> THEN <<>> ELSE Head(seqs) \o Flatten(Tail(seqs))

\* JSON.parse succeeds on exactly what JSON.stringify wrote
JsonValid(data) ==
  Len(data) = 3 /\ data[1] = Tok("{") /\ data[2].t = "json" /\ data[3] = Tok("}")
JsonParse(data) == data[2].chunk

AbortError == [name |-> "AbortError", message |-> <<"The operation was aborted">>]
FetchError == [name |-> "TypeError", message |-> <<"Failed to fetch">>]
HttpError(text) == [name |-> "Error", message |-> text]

Callback(C, cb, text, id) == [C EXCEPT !.log = Append(@, [cb |-> cb, text |-> text, id |-> id])]

\* sendMessage up to the await of sendMessageStream
SendMessage(C, content, now) ==
  LET userMessage == [id |-> TempId("user_", now), role |-> "user", content |-> content]
      aiMessage == [id |-> TempId("ai_", now), role |-> "assistant", content |-> <<>>]
  IN [C EXCEPT !.error = <<>>, !.isStreaming = TRUE, !.aborted = FALSE,
               !.content = content,
               !.userMessageId = userMessage.id, !.aiMessageId = aiMessage.id,
               !.messages = @ \o <<userMessage, aiMessage>>,
               !.hasCompleted = FALSE, !.hasErrored = FALSE,
               !.pc = "fetch"]

\* onContent
OnContent(C, text) ==
  [Callback(C, "onContent", text, 0) EXCEPT
     !.messages = [i \in 1..Len(@) |->
                     IF @[i].id = C.aiMessageId THEN [@[i] EXCEPT !.content = @ \o text] ELSE @[i]]]

\* variant: the placeholder is replaced by a new message object
OnComplete_NewObject(C, messageId) ==
  [Callback(C, "onComplete", <<>>, messageId) EXCEPT
     !.hasCompleted = TRUE, !.isStreaming = FALSE,
     !.messages = [i \in 1..Len(@) |->
                     IF @[i].id = C.aiMessageId
                     THEN [id |-> DurableId(messageId), role |-> "assistant", content |-> <<>>]
                     ELSE @[i]]]

\* onComplete
OnComplete(C, messageId) ==
  [Callback(C, "onComplete", <<>>, messageId) EXCEPT
     !.hasCompleted = TRUE, !.isStreaming = FALSE,
     !.messages = [i \in 1..Len(@) |->
                     IF @[i].id = C.aiMessageId THEN [@[i] EXCEPT !.id = DurableId(messageId)] ELSE @[i]]]

\* variant: the placeholder is removed whatever it holds
OnError_DropsPlaceholder(C, errorMsg) ==
  [Callback(C, "onError", errorMsg, 0) EXCEPT
     !.hasErrored = TRUE, !.error = errorMsg, !.isStreaming = FALSE,
     !.lastFailedMessage = C.content,
     !.messages = SelectSeq(@, LAMBDA msg : msg.id # C.aiMessageId)]

\* onError
OnError(C, errorMsg) ==
  [Callback(C, "onError", errorMsg, 0) EXCEPT
     !.hasErrored = TRUE, !.error = errorMsg, !.isStreaming = FALSE,
     !.lastFailedMessage = C.content,
     !.messages = SelectSeq(@, LAMBDA msg : msg.id # C.aiMessageId \/ msg.content # <<>>)]

\* variant: the loop goes on after a terminal event
Return_Continue(C) == C

\* 'return' inside the read loop
Return(C) == [C EXCEPT !.returned = TRUE]

\* variant: a payload that does not parse ends the session with an error
OnParseError_Fails(C) == Return(OnError(C, <<"Failed to parse SSE data">>))

\* catch (parseError): logged
OnParseError(C) == C

StartsWithData(line) == Len(line) >= 2 /\ SubSeq(line, 1, 2) = DataPrefix

\* the body of 'for (const line of lines)'
ProcessLine(C, line) ==
  IF ~StartsWithData(line) THEN C
  ELSE LET data == SubSeq(line, 3, Len(line))
       IN IF data = <<>> THEN C
          ELSE IF ~JsonValid(data) THEN OnParseError(C)
          ELSE LET chunk == JsonParse(data)
               IN CASE chunk.type = "content" ->
                         IF chunk.content # <<>> THEN OnContent(C, chunk.content) ELSE C
                    [] chunk.type = "complete" ->
                         Return(IF chunk.messageId # 0 THEN OnComplete(C, chunk.messageId) ELSE C)
                    [] chunk.type = "error" ->
                         Return(OnError(C, IF chunk.error # <<>> THEN chunk.error
                                           ELSE <<"Unknown error">>))
                    [] OTHER -> C

RECURSIVE ProcessLines(_, _)
ProcessLines(C, lines) ==
  IF lines = <<>> \/ C.returned THEN C
  ELSE ProcessLines(ProcessLine(C, Head(lines)), Tail(lines))

\* buffer.split('\n')
RECURSIVE Split(_, _)
Split(buf, line) ==
  IF buf = <<>> THEN <<line>>
  ELSE IF Head(buf) = LF THEN <<line>> \o Split(Tail(buf), <<>>)
  ELSE Split(Tail(buf), Append(line, Head(buf)))

\* variant: nothing is kept back, the last piece is handled as a line
SplitLines_NoBuffering(buf) ==
  [lines |-> Split(buf, <<>>), rest |-> <<>>]

\* lines = buffer.split('\n'); buffer = lines.pop() || ''
SplitLines(buf) ==
  LET parts == Split(buf, <<>>)
  IN [lines |-> SubSeq(parts, 1, Len(parts) - 1), rest |-> parts[Len(parts)]]

\* sendMessage after 'await sendMessageStream(...)'
AfterStream(C) ==
  [C EXCEPT !.pc = "settled",
            !.isStreaming = IF ~C.hasCompleted /\ ~C.hasErrored THEN FALSE ELSE @]

\* reader.read() resolves with a value
OnRead(C, value) ==
  LET sp == SplitLines(C.buffer \o value)
      D == ProcessLines([C EXCEPT !.buffer = sp.rest], sp.lines)
  IN IF D.returned THEN AfterStream(D) ELSE D

\* reader.read() resolves with done: what is left in the buffer
OnReadDone(C) ==
  AfterStream(
    IF StartsWithData(C.buffer) /\ Len(C.buffer) > 2 /\ JsonValid(SubSeq(C.buffer, 3, Len(C.buffer)))
    THEN LET chunk == JsonParse(SubSeq(C.buffer, 3, Len(C.buffer)))
         IN IF chunk.type = "content" /\ chunk.content # <<>> THEN OnContent(C, chunk.content)
            ELSE IF chunk.type = "complete" /\ chunk.messageId # 0 THEN OnComplete(C, chunk.messageId)
            ELSE IF chunk.type = "error"
            THEN OnError(C, IF chunk.error # <<>> THEN chunk.error ELSE <<"Unknown error">>)
            ELSE C
    ELSE C)

\* the outer catch of sendMessageStream
OnReject(C, err) ==
  AfterStream(IF err.name = "AbortError" THEN C ELSE OnError(C, err.message))

\* stopStreaming
StopStreaming(C) ==
  [C EXCEPT !.aborted = TRUE, !.isStreaming = FALSE, !.logAtAbort = Len(C.log)]

EarlierMessages ==
  <<[id |-> DurableId(1), role |-> "user", content |-> <<"a">>],
    [id |-> DurableId(2), role |-> "assistant", content |-> <<"b">>]>>

\* the response body: the frames written by the server; cut when the final
\* line terminators do not arrive
WireOf(frames, cut) ==
  IF cut /\ frames # <<>> THEN SubSeq(Flatten(frames), 1, Len(Flatten(frames)) - 2)
  ELSE Flatten(frames)

IdleClient(frames, cut, earlier) ==
  [pc |-> "idle", frames |-> frames, cut |-> cut, before |-> earlier,
   wire |-> WireOf(frames, cut),
   unread |-> <<>>, buffer |-> <<>>, returned |-> FALSE,
   messages |-> earlier, isStreaming |-> FALSE, error |-> <<>>, lastFailedMessage |-> <<>>,
   content |-> <<>>, userMessageId |-> DurableId(0), aiMessageId |-> DurableId(0),
   hasCompleted |-> FALSE, hasErrored |-> FALSE, aborted |-> FALSE,
   log |-> <<>>, logAtAbort |-> 0, fate |-> "none"]

InitClient ==
  /\ chats = [c \in ChatIds |-> FreshChat]
  /\ messages = <<>>
  /\ nextId = 1
  /\ clock = 0
  /\ calls = <<>>
  /\ turn = [InitTurn(IdleRequest, 1) EXCEPT !.pc = "idle"]
  /\ \E frames \in FrameLists, cut \in BOOLEAN, earlier \in {<<>>, EarlierMessages} :
       client = IdleClient(frames, cut, earlier)

ClientSend ==
  /\ client.pc = "idle"
  /\ \E content \in UserContents :
       client' = [SendMessage(client, content, clock) EXCEPT !.unread = client.wire]
  /\ UNCHANGED <<chats, messages, nextId, clock, turn, calls>>

\* fetch resolves with the response headers: 200 and a body, or an error
\* status
FetchResolves ==
  /\ client.pc = "fetch" /\ ~client.aborted
  /\ \E ok \in BOOLEAN :
       client' = [client EXCEPT !.pc = IF ok THEN "read" ELSE "errbody"]
  /\ UNCHANGED <<chats, messages, nextId, clock, turn, calls>>

\* fetch or reader.read() rejects with a network failure
NetworkFails ==
  /\ client.pc \in {"fetch", "read"} /\ ~client.aborted
  /\ client' = [OnReject(client, FetchError) EXCEPT !.fate = "failure"]
  /\ UNCHANGED <<chats, messages, nextId, clock, turn, calls>>

\* 'await response.json().catch(() => ({}))' settles, also after an abort,
\* which the catch swallows; then the Error built from it is thrown
ErrorBodySettles ==
  /\ client.pc = "errbody"
  /\ client' = [OnReject(client, HttpError(IF client.aborted THEN <<"API Error: ", "400">>
                                           ELSE <<"Bad Request">>))
                  EXCEPT !.fate = "http"]
  /\ UNCHANGED <<chats, messages, nextId, clock, turn, calls>>

\* reader.read() resolves with the next bytes
ReadChunk ==
  /\ client.pc = "read" /\ ~client.aborted
  /\ \E n \in 1..Len(client.unread) :
       LET D == OnRead([client EXCEPT !.unread = SubSeq(@, n + 1, Len(@))],
                       SubSeq(client.unread, 1, n))
       IN client' = [D EXCEPT !.fate = IF D.pc = "settled" THEN "stream" ELSE @]
  /\ UNCHANGED <<chats, messages, nextId, clock, turn, calls>>

\* reader.read() resolves with done
ReadDone ==
  /\ client.pc = "read" /\ ~client.aborted
  /\ client.unread = <<>>
  /\ client' = [OnReadDone(client) EXCEPT !.fate = "stream"]
  /\ UNCHANGED <<chats, messages, nextId, clock, turn, calls>>

\* the user presses stop
Stop ==
  /\ client.pc \in {"fetch", "errbody", "read"} /\ ~client.aborted
  /\ client' = StopStreaming(client)
  /\ UNCHANGED <<chats, messages, nextId, clock, turn, calls>>

\* the pending fetch or read rejects with AbortError
AbortObserved ==
  /\ client.pc \in {"fetch", "read"} /\ client.aborted
  /\ client' = [OnReject(client, AbortError) EXCEPT !.fate = "abort"]
  /\ UNCHANGED <<chats, messages, nextId, clock, turn, calls>>

NextClient ==
  \/ ClientSend
  \/ FetchResolves
  \/ NetworkFails
  \/ ErrorBodySettles
  \/ ReadChunk
  \/ ReadDone
  \/ Stop
  \/ AbortObserved

SpecClient == InitClient /\ [][NextClient]_vars

(***************************************************************************)
(* One request against a store in which another caller creates and        *)
(* removes the chat: calls records the removal                            *)
(***************************************************************************)
InitRemove ==
  /\ \E st \in InitialStores :
       /\ chats = st.chats
       /\ messages = st.messages
       /\ nextId = Len(st.messages) + 1
       /\ clock = st.clock
  /\ calls = [removed |-> {}, midStream |-> FALSE]
  /\ client = <<>>
  /\ \E r \in Requests :
       /\ turn = InitTurn(r, nextId)
       /\ r.stream => r.role = NoRole

\* ChatsService.create by another caller: a row with the default title;
\* identifiers are generated and a removed one does not come back
CreateChat ==
  /\ \E c \in ChatIds, now \in clock..MaxClock :
       /\ ~chats[c].exists
       /\ c \notin calls.removed
       /\ chats' = [chats EXCEPT ![c] = [FreshChat EXCEPT !.updatedAt = now]]
       /\ clock' = now
  /\ UNCHANGED <<messages, nextId, turn, calls, client>>

\* ChatsService.remove by another caller: prisma.chat.delete commits
RemoveChat ==
  /\ \E c \in ChatIds :
       /\ chats[c].exists
       /\ chats' = [chats EXCEPT ![c] = NoChat]
       /\ messages' = DeleteChat(messages, c)
       /\ calls' = [removed |-> calls.removed \cup {c},
                    midStream |-> /\ c = turn.req.chatId
                                  /\ turn.req.stream
                                  /\ turn.pc \notin {"recv", "ended"}]
  /\ UNCHANGED <<nextId, clock, turn, client>>

NextRemove ==
  \/ Next
  \/ CreateChat
  \/ RemoveChat

SpecRemove == InitRemove /\ [][NextRemove]_vars

(***************************************************************************)
(* Two streaming requests on the same chat served by one process: turn is *)
(* the request whose continuation runs next, calls.other the suspended one*)
(* Creation times play no part here: the clock starts at its last value.  *)
(***************************************************************************)
InitTurns ==
  /\ chats = [c \in ChatIds |-> FreshChat]
  /\ messages = <<>>
  /\ nextId = 1
  /\ clock = MaxClock
  /\ turn = InitTurn([chatId |-> "c1", content |-> <<"a">>, stream |-> TRUE, role |-> NoRole], 1)
  /\ calls = [other |-> InitTurn([chatId |-> "c1", content |-> <<"b", "a">>, stream |-> TRUE,
                                   role |-> NoRole], 1)]
  /\ client = <<>>

\* the event loop takes up the other request at an await
SwitchRequest ==
  /\ turn.pc # "ended" \/ calls.other.pc # "ended"
  /\ turn' = calls.other
  /\ calls' = [other |-> turn]
  /\ UNCHANGED <<chats, messages, nextId, clock, client>>

NextTurns ==
  \/ Receive
  \/ AddMessageFind
  \/ AddMessageTx
  \/ GetChatHistory
  \/ GatewayOpen
  \/ GatewayFail
  \/ (turn.nDeltas < MaxTurnDeltas /\ GatewayDelta)
  \/ GatewayDone
  \/ SwitchRequest

SpecTurns == InitTurns /\ [][NextTurns]_vars

(***************************************************************************)
(* The chat session of the browser: the state of ChatProvider, the        *)
(* handlers it exports and ChatArea.handleSend.  A step is one user       *)
(* action up to its first await, or the continuation of one handler when  *)
(* the request it awaits settles.  A streaming turn is followed at the    *)
(* level of the callbacks sendMessageStream makes.  In the session a chat *)
(* is its id: what the callbacks do to the message list of currentChat is *)
(* followed in SpecClient, selectChat's merge in SpecMerge.               *)
(***************************************************************************)
\* the ids createChat is answered with, in this order
NewChatIds == <<2>>
NoId == 0
NoError == "null"
NoFailed == [content |-> <<>>, chatId |-> NoId]

CtxMessage(id, role, content, createdAt) ==
  [id |-> id, role |-> role, content |-> content, createdAt |-> createdAt]

IdleTurn == [pc |-> "idle", chatId |-> NoId, content |-> <<>>]
InFlight(t) == t.pc \in {"fetch", "stream"}

\* Array.prototype.sort with the createdAt comparator: stable
RECURSIVE SortFrom(_, _)
SortFrom(msgs, t) ==
  IF \A i \in 1..Len(msgs) : msgs[i].createdAt < t THEN <<>>
  ELSE SelectSeq(msgs, LAMBDA m : m.createdAt = t) \o SortFrom(msgs, t + 1)

\* first pass of the merge, for one fetched message; localMessageMap
\* holds, for an id, the last local message with that id
FirstPass(localMessages, dbMsg) ==
  LET has == \E i \in 1..Len(localMessages) : localMessages[i].id = dbMsg.id
      localMsg ==
        localMessages[CHOOSE i \in 1..Len(localMessages) :
                        /\ localMessages[i].id = dbMsg.id
                        /\ \A j \in (i + 1)..Len(localMessages) : localMessages[j].id # dbMsg.id]
  IN IF has /\ localMsg.content # <<>> /\ dbMsg.content = <<>> THEN localMsg
     ELSE IF dbMsg.content # <<>> THEN dbMsg
     ELSE IF has THEN localMsg
     ELSE dbMsg

\* selectChat's merge of the fetched messages into the local ones
MergeMessages(localMessages, dbMessages) ==
  LET processedLocalIds == {dbMessages[i].id : i \in 1..Len(dbMessages)}
  IN SortFrom(
       [i \in 1..Len(dbMessages) |-> FirstPass(localMessages, dbMessages[i])]
       \o SelectSeq(localMessages,
                    LAMBDA m : /\ m.id \notin processedLocalIds
                               /\ (m.id.prefix = TEMP_ID_PREFIX \/ m.content # <<>>)),
       0)

\* the updater selectChat passes to setCurrentChat: the fetched chat,
\* with the merged messages when the same chat is already shown
MergeChat(prev, chatId, data) ==
  IF prev = [id |-> NoId] \/ prev.id # chatId THEN data
  ELSE [data EXCEPT !.messages = MergeMessages(prev.messages, data.messages)]

\* loadChats up to its await
CtxLoadChats(S) == [S EXCEPT !.isLoadingChats = TRUE, !.error = NoError, !.listLoads = @ + 1]

\* sendMessage up to the await of sendMessageStream; chatId is the
\* currentChatId its closure was created with
CtxSendMessage(S, chatId, content) ==
  IF chatId = NoId THEN [S EXCEPT !.error = "No chat selected"]
  ELSE LET k == S.sends + 1
       IN [S EXCEPT !.error = NoError, !.isStreaming = TRUE, !.abortRef = k,
                    !.turns[k] = [pc |-> "fetch", chatId |-> chatId, content |-> content],
                    !.sends = k]

\* sendMessage after sendMessageStream returned
CtxSettle(S, k) == [S EXCEPT !.turns[k] = [IdleTurn EXCEPT !.pc = "done"]]

Remove(seq, i) == SubSeq(seq, 1, i - 1) \o SubSeq(seq, i + 1, Len(seq))

\* the api calls of selectChat, createChat and deleteChat that are pending
Pending(S) == Len(S.loads) + Len(S.creates) + Len(S.deletes)

\* the rejection of an api call, as the handlers report it
ApiError == "Failed to fetch"

InitSession ==
  /\ client = CtxLoadChats(
       [chats |-> {}, currentChat |-> [id |-> NoId], currentChatId |-> NoId,
        isLoadingChats |-> FALSE, isLoadingMessages |-> FALSE, isStreaming |-> FALSE,
        error |-> NoError, lastFailedMessage |-> NoFailed, abortRef |-> 0,
        turns |-> [k \in 1..MaxSends |-> IdleTurn], sends |-> 0,
        listLoads |-> 0, loads |-> <<>>, creates |-> <<>>, created |-> 0,
        deletes |-> <<>>,
        srv |-> {1}])   \* the chats of the server at mount
  /\ chats = <<>>
  /\ messages = <<>>
  /\ nextId = 0
  /\ clock = 0
  /\ turn = <<>>
  /\ calls = <<>>

\* loadChats: fetchChats resolves
LoadChatsResolves ==
  /\ client.listLoads > 0
  /\ client' = [client EXCEPT !.listLoads = @ - 1, !.chats = client.srv,
                              !.isLoadingChats = FALSE]
  /\ UNCHANGED <<chats, messages, nextId, clock, turn, calls>>

\* loadChats: fetchChats rejects
LoadChatsRejects ==
  /\ client.listLoads > 0
  /\ client' = [client EXCEPT !.listLoads = @ - 1, !.error = ApiError,
                              !.isLoadingChats = FALSE]
  /\ UNCHANGED <<chats, messages, nextId, clock, turn, calls>>

\* selectChat up to the await of fetchChat: a click on a chat of the list
SelectChat ==
  /\ Pending(client) < MaxPending
  /\ \E c \in client.chats :
       /\ client' = [client EXCEPT !.currentChatId = c, !.isLoadingMessages = TRUE,
                                   !.error = NoError, !.loads = Append(@, c)]
  /\ UNCHANGED <<chats, messages, nextId, clock, turn, calls>>

\* selectChat: fetchChat resolves
SelectChatResolves ==
  /\ \E i \in 1..Len(client.loads) :
       LET c == client.loads[i]
       IN /\ c \in client.srv
          /\ client' = [client EXCEPT !.loads = Remove(@, i),
                                      !.currentChat = [id |-> c],
                                      !.isLoadingMessages = FALSE]
  /\ UNCHANGED <<chats, messages, nextId, clock, turn, calls>>

\* selectChat: fetchChat rejects
SelectChatRejects ==
  /\ \E i \in 1..Len(client.loads) :
       client' = [client EXCEPT !.loads = Remove(@, i), !.error = ApiError,
                                !.isLoadingMessages = FALSE]
  /\ UNCHANGED <<chats, messages, nextId, clock, turn, calls>>

\* createChat up to the await of the api call; send is the content
\* handleSend goes on with, or <<>> for the new-chat button
CtxCreateChat(S, send) ==
  [S EXCEPT !.error = NoError, !.creates = Append(@, send), !.created = @ + 1]

\* the button of EmptyState, which is rendered when no load is in flight
\* and the shown list of messages is empty: here, as long as nothing was
\* sent
NewChat ==
  /\ ~client.isLoadingMessages
  /\ client.sends = 0
  /\ client.created < Len(NewChatIds)
  /\ Pending(client) < MaxPending
  /\ client' = CtxCreateChat(client, <<>>)
  /\ UNCHANGED <<chats, messages, nextId, clock, turn, calls>>

\* createChat: the api call resolves; handleSend then calls the
\* sendMessage of the render it was created in, where currentChatId is null
CreateChatResolves ==
  /\ client.creates # <<>>
  /\ LET newChat == NewChatIds[client.created - Len(client.creates) + 1]
         send == Head(client.creates)
         S == [client EXCEPT !.creates = Tail(@),
                             !.srv = @ \cup {newChat},
                             !.chats = {newChat} \cup @,
                             !.currentChatId = newChat,
                             !.currentChat = [id |-> newChat]]
     IN client' = IF send = <<>> THEN S ELSE CtxSendMessage(S, NoId, send)
  /\ UNCHANGED <<chats, messages, nextId, clock, turn, calls>>

\* createChat: the api call rejects; handleSend returns
CreateChatRejects ==
  /\ client.creates # <<>>
  /\ client' = [client EXCEPT !.creates = Tail(@), !.error = ApiError]
  /\ UNCHANGED <<chats, messages, nextId, clock, turn, calls>>

\* ChatArea.handleSend; the input is disabled while isStreaming
HandleSend ==
  /\ ~client.isStreaming
  /\ \E content \in {<<"a">>} :
       IF client.currentChatId = NoId
       THEN /\ client.created < Len(NewChatIds)
            /\ Pending(client) < MaxPending
            /\ client' = CtxCreateChat(client, content)
       ELSE /\ client.sends < MaxSends
            /\ client' = CtxSendMessage(client, client.currentChatId, content)
  /\ UNCHANGED <<chats, messages, nextId, clock, turn, calls>>

\* the retry button, shown with an error while a failed message is kept:
\* retryLastMessage calls the sendMessage of its render
RetryLastMessage ==
  /\ client.error # NoError
  /\ client.lastFailedMessage # NoFailed
  /\ client.sends < MaxSends
  /\ client' = CtxSendMessage([client EXCEPT !.error = NoError, !.lastFailedMessage = NoFailed],
                              client.currentChatId, client.lastFailedMessage.content)
  /\ UNCHANGED <<chats, messages, nextId, clock, turn, calls>>

\* the stop button, shown while isStreaming: stopStreaming; the aborted
\* request rejects with AbortError, which sendMessageStream swallows, and
\* sendMessage runs its safety check
StopButton ==
  /\ client.isStreaming
  /\ LET k == client.abortRef
         A == [client EXCEPT !.abortRef = 0, !.isStreaming = FALSE]
     IN client' = IF k # 0 /\ InFlight(client.turns[k]) THEN CtxSettle(A, k) ELSE A
  /\ UNCHANGED <<chats, messages, nextId, clock, turn, calls>>

\* clearError
ClearError ==
  /\ client.error # NoError
  /\ client' = [client EXCEPT !.error = NoError]
  /\ UNCHANGED <<chats, messages, nextId, clock, turn, calls>>

\* deleteChat up to the await of the api call; the closure keeps the
\* currentChatId of the render the handler was created in
DeleteChatCall ==
  /\ Pending(client) < MaxPending
  /\ \E c \in client.chats :
       /\ client' = [client EXCEPT !.error = NoError,
                                   !.deletes = Append(@, [chatId |-> c,
                                                          currentChatId |-> client.currentChatId])]
  /\ UNCHANGED <<chats, messages, nextId, clock, turn, calls>>

\* deleteChat: the api call resolves
DeleteChatResolves ==
  /\ client.deletes # <<>>
  /\ LET d == Head(client.deletes)
         S == [client EXCEPT !.deletes = Tail(@),
                             !.srv = @ \ {d.chatId},
                             !.chats = @ \ {d.chatId}]
     IN /\ d.chatId \in client.srv
        /\ client' = IF d.currentChatId = d.chatId
                     THEN [S EXCEPT !.currentChatId = NoId, !.currentChat = [id |-> NoId]]
                     ELSE S
  /\ UNCHANGED <<chats, messages, nextId, clock, turn, calls>>

\* deleteChat: the api call rejects
DeleteChatRejects ==
  /\ client.deletes # <<>>
  /\ client' = [client EXCEPT !.deletes = Tail(@), !.error = ApiError]
  /\ UNCHANGED <<chats, messages, nextId, clock, turn, calls>>

\* the streaming POST of turn k is answered 200
TurnResponds(k) ==
  /\ client.turns[k].pc = "fetch"
  /\ client.turns[k].chatId \in client.srv
  /\ client' = [client EXCEPT !.turns[k].pc = "stream"]
  /\ UNCHANGED <<chats, messages, nextId, clock, turn, calls>>

\* the complete event of turn k: onComplete, which reloads the list
TurnCompletes(k) ==
  /\ client.turns[k].pc = "stream"
  /\ client.turns[k].chatId \in client.srv
  /\ client' = CtxSettle(CtxLoadChats([client EXCEPT !.isStreaming = FALSE]), k)
  /\ UNCHANGED <<chats, messages, nextId, clock, turn, calls>>

\* turn k fails: the request is refused or rejected, an error event
\* arrives, or a read rejects: onError
TurnFails(k) ==
  /\ InFlight(client.turns[k])
  /\ client' = CtxSettle([client EXCEPT
                  !.error = "stream failed", !.isStreaming = FALSE,
                  !.lastFailedMessage = [content |-> client.turns[k].content,
                                         chatId |-> client.turns[k].chatId]], k)
  /\ UNCHANGED <<chats, messages, nextId, clock, turn, calls>>

\* the stream of turn k closes without a terminal event: the safety
\* check after sendMessageStream returned without a callback
TurnClosesSilently(k) ==
  /\ client.turns[k].pc = "stream"
  /\ client' = CtxSettle([client EXCEPT !.isStreaming = FALSE], k)
  /\ UNCHANGED <<chats, messages, nextId, clock, turn, calls>>

NextSession ==
  \/ LoadChatsResolves
  \/ LoadChatsRejects
  \/ SelectChat
  \/ SelectChatResolves
  \/ SelectChatRejects
  \/ NewChat
  \/ CreateChatResolves
  \/ CreateChatRejects
  \/ HandleSend
  \/ RetryLastMessage
  \/ StopButton
  \/ ClearError
  \/ DeleteChatCall
  \/ DeleteChatResolves
  \/ DeleteChatRejects
  \/ \E k \in 1..MaxSends : TurnResponds(k)
  \/ \E k \in 1..MaxSends : TurnCompletes(k)
  \/ \E k \in 1..MaxSends : TurnFails(k)
  \/ \E k \in 1..MaxSends : TurnClosesSilently(k)

SpecSession == InitSession /\ [][NextSession]_vars

(***************************************************************************)
(* The message list of the chat that is shown: the turns sent in it, the  *)
(* durable messages the server holds for it, and selectChat on the same   *)
(* chat, whose fetch is answered with the messages the server held when   *)
(* it was served and resolves at any later time                           *)
(***************************************************************************)
ShownChatId == 1
IdleStream == [pc |-> "idle", aiId |-> TempId("ai_", 0), text |-> <<>>, content |-> <<>>, savedId |-> 0]

InitMerge ==
  /\ client = [chat |-> [id |-> ShownChatId, messages |-> <<>>],
               srv |-> <<>>, srvNext |-> 1, now |-> 0, sends |-> 0,
               stream |-> IdleStream, fetches |-> <<>>,
               merge |-> [done |-> FALSE, local |-> <<>>, db |-> <<>>, out |-> <<>>]]
  /\ chats = <<>>
  /\ messages = <<>>
  /\ nextId = 0
  /\ clock = 0
  /\ turn = <<>>
  /\ calls = <<>>

\* sendMessage: the optimistic user message and the placeholder
ShownSend ==
  /\ client.stream.pc = "idle"
  /\ client.sends < MaxShownSends
  /\ LET userMessage == CtxMessage(TempId("user_", client.now), "user", <<"a">>, client.now)
         aiMessage == CtxMessage(TempId("ai_", client.now), "assistant", <<>>, client.now)
     IN client' = [client EXCEPT
          !.chat.messages = @ \o <<userMessage, aiMessage>>,
          !.stream = [pc |-> "fetch", aiId |-> aiMessage.id, text |-> <<>>,
                      content |-> <<"a">>, savedId |-> 0],
          !.sends = @ + 1, !.now = @ + 1]
  /\ UNCHANGED <<chats, messages, nextId, clock, turn, calls>>

\* the server persists the user message and answers 200
ShownResponds ==
  /\ client.stream.pc = "fetch"
  /\ client' = [client EXCEPT
       !.srv = Append(@, CtxMessage(DurableId(client.srvNext), "user", client.stream.content,
                                    client.now)),
       !.srvNext = @ + 1,
       !.stream.pc = "stream"]
  /\ UNCHANGED <<chats, messages, nextId, clock, turn, calls>>

\* onContent
ShownContent ==
  /\ client.stream.pc = "stream"
  /\ client.stream.text = <<>>
  /\ client' = [client EXCEPT
       !.stream.text = <<"x">>,
       !.chat.messages = [i \in 1..Len(@) |->
                            IF @[i].id = client.stream.aiId
                            THEN [@[i] EXCEPT !.content = @ \o <<"x">>] ELSE @[i]]]
  /\ UNCHANGED <<chats, messages, nextId, clock, turn, calls>>

\* the server persists the reply; the complete event is on its way
ShownServerSaves ==
  /\ client.stream.pc = "stream"
  /\ client.stream.text # <<>>
  /\ client' = [client EXCEPT
       !.srv = Append(@, CtxMessage(DurableId(client.srvNext), "assistant", client.stream.text,
                                    client.now)),
       !.srvNext = @ + 1,
       !.stream.savedId = client.srvNext,
       !.stream.pc = "saved"]
  /\ UNCHANGED <<chats, messages, nextId, clock, turn, calls>>

\* onComplete: the placeholder takes the durable id
ShownComplete ==
  /\ client.stream.pc = "saved"
  /\ client' = [client EXCEPT
       !.stream = IdleStream,
       !.chat.messages = [i \in 1..Len(@) |->
                            IF @[i].id = client.stream.aiId
                            THEN [@[i] EXCEPT !.id = DurableId(client.stream.savedId)] ELSE @[i]]]
  /\ UNCHANGED <<chats, messages, nextId, clock, turn, calls>>

\* onError: an empty placeholder is removed
ShownFails ==
  /\ client.stream.pc \in {"fetch", "stream"}
  /\ client' = [client EXCEPT
       !.stream = IdleStream,
       !.chat.messages = SelectSeq(@, LAMBDA msg : msg.id # client.stream.aiId \/ msg.content # <<>>)]
  /\ UNCHANGED <<chats, messages, nextId, clock, turn, calls>>

\* stopStreaming: the messages stay as they are
ShownStop ==
  /\ client.stream.pc \in {"fetch", "stream", "saved"}
  /\ client' = [client EXCEPT !.stream = IdleStream]
  /\ UNCHANGED <<chats, messages, nextId, clock, turn, calls>>

\* selectChat on the shown chat: the server answers fetchChat
ShownSelect ==
  /\ Len(client.fetches) < MaxPending
  /\ client' = [client EXCEPT !.fetches = Append(@, client.srv)]
  /\ UNCHANGED <<chats, messages, nextId, clock, turn, calls>>

\* selectChat: fetchChat resolves and the fetched chat is merged
ShownSelectResolves ==
  /\ \E i \in 1..Len(client.fetches) :
       LET data == [id |-> ShownChatId, messages |-> client.fetches[i]]
           next == MergeChat(client.chat, ShownChatId, data)
       IN client' = [client EXCEPT
            !.fetches = Remove(@, i),
            !.chat = next,
            !.merge = [done |-> TRUE, local |-> client.chat.messages, db |-> data.messages,
                       out |-> next.messages]]
  /\ UNCHANGED <<chats, messages, nextId, clock, turn, calls>>

NextMerge ==
  \/ ShownSend
  \/ ShownResponds
  \/ ShownContent
  \/ ShownServerSaves
  \/ ShownComplete
  \/ ShownFails
  \/ ShownStop
  \/ ShownSelect
  \/ ShownSelectResolves

SpecMerge == InitMerge /\ [][NextMerge]_vars

(***************************************************************************)
(* Properties                                                              *)
(***************************************************************************)
RECURSIVE Concat(_)
Concat(chunksSeq) ==
  IF chunksSeq = <<>> THEN <<>> ELSE Head(chunksSeq).content \o Concat(Tail(chunksSeq))

ContentsOf(ev) == SelectSeq(ev, LAMBDA c : c.type = "content")
TerminalsOf(ev) == SelectSeq(ev, LAMBDA c : c.type \in {"complete", "error"})
HasType(ev, t) == \E i \in 1..Len(ev) : ev[i].type = t
AllContent(ev) == \A i \in 1..Len(ev) : ev[i].type = "content"

\* C1: the events of a streaming response are zero or more content events
\* followed by exactly one terminal event (complete or error), and the
\* response is closed after (and only after) that terminal event.
C1_ExactlyOneTerminal ==
  turn.req.stream =>
    IF turn.ended
    THEN /\ Len(turn.events) >= 1
         /\ turn.events[Len(turn.events)].type \in {"complete", "error"}
         /\ AllContent(SubSeq(turn.events, 1, Len(turn.events) - 1))
    ELSE AllContent(turn.events)

\* C2: once the gateway has yielded an error fragment, no assistant message
\* is persisted for the turn (and no save of one is attempted), whatever was
\* accumulated before.
C2_NoPersistOnGatewayError ==
  HasType(turn.gwYielded, "error") =>
    /\ AssistantMessages(turn.req.chatId, turn.baseId) = <<>>
    /\ turn.asstAttempts = 0

C2_Witness ==
  /\ turn.ended
  /\ HasType(turn.gwYielded, "error")
  /\ turn.full # <<>>

\* C3: every complete event carries the id of an assistant message that is
\* in the store, in the request's chat, with non-empty content equal to the
\* concatenation of the content events written before it.
C3_CompleteIsDurable ==
  \A i \in 1..Len(turn.events) :
    turn.events[i].type = "complete" =>
      \E j \in 1..Len(messages) :
        /\ messages[j].id = turn.events[i].messageId
        /\ messages[j].chatId = turn.req.chatId
        /\ messages[j].role = "assistant"
        /\ messages[j].content # <<>>
        /\ messages[j].content = Concat(ContentsOf(SubSeq(turn.events, 1, i - 1)))

C3_Witness ==
  /\ HasType(turn.events, "complete")
  /\ Len(ContentsOf(turn.events)) >= 2

\* C4: the gateway is only invoked when the user message of the turn is in
\* the store.
C4_UserDurableBeforeModel ==
  turn.gwCalls > 0 =>
    \E j \in 1..Len(messages) :
      /\ messages[j].id = turn.userMsgId
      /\ messages[j].chatId = turn.req.chatId
      /\ messages[j].role = "user"
      /\ messages[j].content = turn.req.content

C4_Witness == turn.gwCalls > 0 /\ turn.pc = "gw_create"

\* C5: a streaming request whose user message could not be persisted makes
\* no model call, writes no event, opens no event stream and is answered
\* with an ordinary failure status.
C5_SyncFailureOnUserSave ==
  (turn.req.stream /\ turn.ended /\ turn.userMsgId = 0) =>
    /\ turn.gwCalls = 0
    /\ turn.events = <<>>
    /\ turn.contentType # "sse"
    /\ turn.status \in {404, 500}

\* C6: when the client disconnects while fragments are relayed, no further
\* gateway fragment is read and no assistant message is persisted.
C6_DisconnectCancels ==
  turn.leftAt = "gw_stream" =>
    /\ Len(turn.gwYielded) = turn.leftYielded
    /\ turn.asstAttempts = 0
    /\ AssistantMessages(turn.req.chatId, turn.baseId) = <<>>

\* C8: when the gateway ended with done and text was accumulated but the
\* save of the assistant message failed, the only terminal event is one
\* error event with the save-failure text, which no gateway error text
\* equals; no complete event is written and the save was attempted once.
SaveFailed == turn.asstAttempts >= 1 /\ turn.asstMsgId = 0 /\ turn.ended

C8_SaveFailureReported ==
  /\ turn.asstAttempts <= 1
  /\ SaveFailed =>
       /\ TerminalsOf(turn.events) = <<ErrorChunk(SaveFailedText)>>
       /\ ~HasType(turn.events, "complete")
       /\ turn.asstAttempts = 1
       /\ AssistantMessages(turn.req.chatId, turn.baseId) = <<>>
       /\ \A err \in BackendErrors : FriendlyError(err) # SaveFailedText

C8_Witness == SaveFailed /\ Len(ContentsOf(turn.events)) >= 1

\* C9: the content events written are exactly the content fragments the
\* gateway produced, in the same order; and when the client has received
\* the complete event, the content it received, concatenated in order, is
\* the persisted assistant content.
C9_FifoRelay ==
  /\ ContentsOf(turn.events) = ContentsOf(turn.gwYielded)
  /\ HasType(turn.received, "complete") =>
       \E j \in 1..Len(messages) :
         /\ messages[j].id = turn.asstMsgId
         /\ messages[j].content = Concat(ContentsOf(turn.received))

C9_Witness ==
  /\ HasType(turn.received, "complete")
  /\ Len(ContentsOf(turn.received)) >= 2
  /\ turn.received[1] # turn.received[2]

\* C10: a streaming turn persists at most one assistant message.
C10_AtMostOneAssistant ==
  turn.req.stream => Len(AssistantMessages(turn.req.chatId, turn.baseId)) <= 1

C10_Witness ==
  turn.req.stream /\ turn.ended /\ Len(AssistantMessages(turn.req.chatId, turn.baseId)) = 1

\* C11: no event of type done is ever written to the response; a done
\* fragment of the gateway only leads to the save of the assistant message
\* (or, with nothing accumulated, to the end of the generator).
C11_DoneNotRelayed ==
  /\ ~HasType(turn.events, "done")
  /\ HasType(turn.gwYielded, "done") =>
       /\ turn.pc \in {"find", "tx", "ended"}
       /\ turn.full # <<>> => turn.asstAttempts = 1

C11_Witness ==
  /\ HasType(turn.gwYielded, "done")
  /\ turn.ended
  /\ Len(turn.events) >= 2

\* C19: a gateway failure (at create or in the middle of the backend
\* stream) is never caught as an exception by the relay loop; the response
\* carries exactly one error event, the fragment the gateway yielded for
\* it, and nothing after it.
ErrorsOf(ev) == SelectSeq(ev, LAMBDA c : c.type = "error")

C19_GatewayFailureIsFragment ==
  turn.gwErr # NoBackendError =>
    /\ turn.caughtExc = NoException
    /\ turn.ended
    /\ Len(ErrorsOf(turn.events)) = 1
    /\ turn.events[Len(turn.events)] = turn.gwYielded[Len(turn.gwYielded)]
    /\ turn.events[Len(turn.events)].type = "error"
    /\ ~HasType(turn.events, "complete")

C19_Witness ==
  /\ turn.gwErr # NoBackendError
  /\ Len(ContentsOf(turn.events)) >= 1

\* C18: a streamChat sequence consumed to its end consists of content
\* fragments followed by exactly one terminal marker, done when the backend
\* stream completed and error when create or the stream failed; before the
\* generator has returned only content fragments were yielded.
C18_OneTerminalMarker ==
  LET y == turn.gwYielded
  IN IF turn.pc = "gw_returned"
     THEN /\ Len(y) >= 1
          /\ AllContent(SubSeq(y, 1, Len(y) - 1))
          /\ y[Len(y)].type = (IF turn.gwErr = NoBackendError THEN "done" ELSE "error")
     ELSE AllContent(y)

C18_Witness ==
  /\ turn.pc = "gw_returned"
  /\ turn.gwErr # NoBackendError
  /\ Len(turn.gwYielded) >= 2

(***************************************************************************)
(* Properties of the store under concurrent callers (SpecStore)            *)
(***************************************************************************)
MessagesOf(msgs, chatId) == SelectSeq(msgs, LAMBDA m : m.chatId = chatId)

\* this step is the write of caller k's addMessage
AddMessageWrites(k) ==
  /\ calls.by[k].op = "addMessage" /\ calls.by[k].pc = "write"
  /\ calls'.by[k].pc = "idle"

\* ... and the call returned a message
AddMessageCommits(k) == AddMessageWrites(k) /\ calls'.by[k].result = "ok"

\* this step is a call made by caller k
CallStarts(k) == calls'.made = calls.made + 1 /\ calls'.by[k] # calls.by[k]

\* C12: an append is atomic: the step in which addMessage returns a message
\* is the one step that adds that message to the chat and sets the chat's
\* updatedAt to the append's timestamp; an addMessage that fails leaves
\* messages and chats as they were; no other step adds a message.
C12_AppendAtomic ==
  [][\A c \in ChatIds :
       LET before == MessagesOf(messages, c)
           after == MessagesOf(messages', c)
       IN /\ Len(after) > Len(before) =>
               \E k \in Callers : AddMessageCommits(k) /\ calls.by[k].chatId = c
          /\ \A k \in Callers :
               (AddMessageWrites(k) /\ calls.by[k].chatId = c) =>
                 IF calls'.by[k].result = "ok"
                 THEN /\ Len(after) = Len(before) + 1
                      /\ after[Len(after)].id = calls'.by[k].returned
                      /\ after[Len(after)].content = calls.by[k].content
                      /\ chats'[c].exists
                      /\ chats'[c].updatedAt = calls.by[k].stamp
                 ELSE messages' = messages /\ chats' = chats]_vars

C12_Witness ==
  \E k, j \in Callers :
    /\ calls.by[k].op = "addMessage" /\ calls.by[k].result = "ok"
    /\ calls.by[j].op = "addMessage" /\ calls.by[j].pc = "write"
    /\ chats[calls.by[k].chatId].updatedAt > 0

ExpectedTitle(text) ==
  IF Len(text) <= 50 THEN text
  ELSE [i \in 1..53 |-> IF i <= 50 THEN text[i] ELSE "."]

HasUserMessage(chatId) ==
  \E i \in 1..Len(messages) : messages[i].chatId = chatId /\ messages[i].role = "user"

\* C13: when addMessage with role user succeeds on a chat that has no user
\* message yet and whose title was the default when the call read it, the
\* title becomes the text itself if it has at most 50 characters and else
\* its first 50 characters followed by "..."; a successful addMessage with
\* role assistant or system leaves the title as it is.
C13_FirstUserMessageTitles ==
  [][\A k \in Callers :
       AddMessageCommits(k) =>
         LET call == calls.by[k]
         IN /\ (call.role = "user" /\ call.chat.title = DefaultTitle /\ ~HasUserMessage(call.chatId))
                 => chats'[call.chatId].title = ExpectedTitle(call.content)
            /\ call.role # "user" => chats'[call.chatId].title = chats[call.chatId].title]_vars

C13_Witness ==
  \E c \in ChatIds :
    /\ chats[c].exists
    /\ Len(chats[c].title) = 50
    /\ \E i \in 1..Len(messages) : messages[i].chatId = c /\ messages[i].content = chats[c].title

\* C14: once a chat has a user message, a later successful addMessage with
\* role user leaves the chat's title as it is.
C14_LaterUserMessagesKeepTitle ==
  [][\A k \in Callers :
       (AddMessageCommits(k) /\ calls.by[k].role = "user" /\ HasUserMessage(calls.by[k].chatId))
         => chats'[calls.by[k].chatId].title = chats[calls.by[k].chatId].title]_vars

\* C15: a successful addMessage leaves updatedAt strictly greater than the
\* value the call found, and never smaller than the value it replaces.
C15_UpdatedAtAdvances ==
  [][\A k \in Callers :
       AddMessageCommits(k) =>
         /\ chats'[calls.by[k].chatId].updatedAt > calls.by[k].chat.updatedAt
         /\ chats'[calls.by[k].chatId].updatedAt >= chats[calls.by[k].chatId].updatedAt]_vars

\* C16: an addMessage whose write finds the chat absent fails with
\* NotFoundException and leaves messages and chats as they were.
C16_AbsentAtWriteIsNotFound ==
  [][\A k \in Callers :
       (AddMessageWrites(k) /\ ~chats[calls.by[k].chatId].exists) =>
         /\ calls'.by[k].result = NotFoundException(calls.by[k].chatId).name
         /\ messages' = messages /\ chats' = chats]_vars

\* C17: remove called for an absent chat fails with NotFoundException and
\* changes nothing; the delete of an existing chat removes the chat and all
\* of its messages; an absent chat has no messages, and findOne called for
\* it fails with NotFoundException.
C17_RemoveDeletesChatAndMessages ==
  [][/\ \A k \in Callers :
          LET c == calls'.by[k].chatId
          IN /\ (CallStarts(k) /\ calls'.by[k].op \in {"remove", "findOne"} /\ ~chats[c].exists) =>
                  /\ calls'.by[k].pc = "idle"
                  /\ calls'.by[k].result = NotFoundException(c).name
             /\ (calls.by[k].op = "remove" /\ calls.by[k].pc = "write" /\ calls'.by[k].result = "ok") =>
                  /\ chats[c].exists /\ ~chats'[c].exists
                  /\ MessagesOf(messages', c) = <<>>
     /\ calls'.made = calls.made + 1 => (chats' = chats /\ messages' = messages)
     /\ \A c \in ChatIds : ~chats'[c].exists => MessagesOf(messages', c) = <<>>]_vars

C17_Witness ==
  \E k, j \in Callers :
    /\ calls.by[k].op = "remove" /\ calls.by[k].result = "ok"
    /\ calls.by[j].op = "findOne" /\ calls.by[j].result = NotFoundException(calls.by[j].chatId).name
    /\ nextId > 1
    /\ messages = <<>>

\* the failure categories of the error-handling design
Category(err) ==
  IF HasStatus(err, 401) \/ Includes(err.message, "invalid_api_key") THEN "Authentication"
  ELSE IF HasStatus(err, 402) \/ Includes(err.message, "quota") THEN "Quota"
  ELSE IF HasStatus(err, 403) THEN "Forbidden"
  ELSE IF HasStatus(err, 429) THEN "RateLimited"
  ELSE IF \E st \in 500..599 : HasStatus(err, st) THEN "UpstreamInternal"
  ELSE IF err.code \in {"ECONNREFUSED", "ENOTFOUND"} THEN "Unreachable"
  ELSE IF Includes(err.message, "timeout") THEN "Timeout"
  ELSE "Unknown"

\* C20: the error event sent to the client depends only on the category of
\* the failure: any other failure of the same category, whatever its
\* message, would have produced the same event.
C20_TextDependsOnCategoryOnly ==
  (turn.gwErr # NoBackendError /\ turn.ended) =>
    \A other \in BackendErrors :
      Category(other) = Category(turn.gwErr) =>
        turn.events[Len(turn.events)] = ErrorChunk(FriendlyError(other))

\* the user-visible text of each category
CategoryText(cat) ==
  CASE cat = "Authentication" -> <<"AI auth failed, check API Key">>
    [] cat = "Quota" -> <<"AI unavailable, check balance or config">>
    [] cat = "Forbidden" -> <<"AI access denied, check API permissions">>
    [] cat = "RateLimited" -> <<"AI too many requests, retry later">>
    [] cat = "UpstreamInternal" -> <<"AI internal error, retry later">>
    [] cat = "Unreachable" -> <<"cannot reach AI service, check network and BASE_URL">>
    [] cat = "Timeout" -> <<"AI timed out, retry later">>
    [] cat = "Unknown" -> <<"AI unavailable, retry later">>

\* C21: the error fragment streamChat yields for a backend failure carries
\* the text of the failure's category in the taxonomy, every 5xx status
\* being UpstreamInternal and everything uncategorised the generic text.
C21_ClassificationMatchesTaxonomy ==
  (turn.pc = "gw_returned" /\ turn.gwErr # NoBackendError) =>
    turn.gwYielded[Len(turn.gwYielded)] = ErrorChunk(CategoryText(Category(turn.gwErr)))

C29_MessagesImmutable ==
  [][LET kept == SelectSeq(messages, LAMBDA m : chats'[m.chatId].exists)
         old == SelectSeq(messages', LAMBDA m : m.id < nextId)
         new == SelectSeq(messages', LAMBDA m : m.id >= nextId)
     IN /\ old = kept
        /\ Len(new) <= 1
        /\ \A i \in 1..Len(messages) :
             ~chats'[messages[i].chatId].exists => chats[messages[i].chatId].exists]_vars

C29_Witness ==
  /\ Len(messages) >= 2
  /\ \E k, j \in Callers :
       /\ calls.by[k].op = "updateTitle" /\ calls.by[k].result = "ok"
       /\ calls.by[j].op = "addMessage" /\ calls.by[j].result = "ok"

LastCallback == client.log[Len(client.log)]

\* the texts passed to onContent, concatenated
RECURSIVE Accumulated(_)
Accumulated(log) ==
  IF log = <<>> THEN <<>>
  ELSE (IF Head(log).cb = "onContent" THEN Head(log).text ELSE <<>>) \o Accumulated(Tail(log))

OptimisticUser == [id |-> client.userMessageId, role |-> "user", content |-> client.content]

\* C23: when the turn ended with onComplete(m), the chat shows the earlier
\* messages and the optimistic user message unchanged, followed by the
\* placeholder with identifier m and all the content received; the request
\* is settled and isStreaming is false.
C23_CompleteSwapsIdentifier ==
  (client.pc = "settled" /\ client.log # <<>> /\ LastCallback.cb = "onComplete") =>
    /\ client.messages =
         client.before \o
         <<OptimisticUser,
           [id |-> DurableId(LastCallback.id), role |-> "assistant",
            content |-> Accumulated(client.log)]>>
    /\ ~client.isStreaming

C23_Witness ==
  /\ client.pc = "settled" /\ client.log # <<>> /\ LastCallback.cb = "onComplete"
  /\ Len(client.log) = 3
  /\ client.before # <<>>

\* C24: when the turn ended with onError(text), error holds the text and
\* lastFailedMessage the content that was sent; the chat still shows the
\* optimistic user message; the placeholder is gone if it was empty and is
\* kept with its partial text otherwise; isStreaming is false.
C24_ErrorKeepsPartialText ==
  (client.pc = "settled" /\ client.log # <<>> /\ LastCallback.cb = "onError") =>
    /\ client.error = LastCallback.text
    /\ client.lastFailedMessage = client.content
    /\ client.messages =
         client.before \o <<OptimisticUser>> \o
         (IF Accumulated(client.log) = <<>> THEN <<>>
          ELSE <<[id |-> client.aiMessageId, role |-> "assistant",
                  content |-> Accumulated(client.log)]>>)
    /\ ~client.isStreaming

C24_Witness ==
  /\ client.pc = "settled" /\ client.log # <<>> /\ LastCallback.cb = "onError"
  /\ client.fate = "stream"
  /\ Accumulated(client.log) # <<>>

\* sendMessageStream given the whole body in a single read
SingleRead(body) ==
  LET C0 == [client EXCEPT !.pc = "read", !.log = <<>>, !.buffer = <<>>, !.returned = FALSE,
                           !.hasCompleted = FALSE, !.hasErrored = FALSE]
      R == IF body = <<>> THEN C0 ELSE OnRead(C0, body)
  IN IF R.pc = "settled" THEN R ELSE OnReadDone(R)

IsPrefix(a, b) == Len(a) <= Len(b) /\ a = SubSeq(b, 1, Len(a))

\* C25: however the body was split into reads, the callbacks made once the
\* body is consumed are those made when the whole body arrives in one
\* read, and while reading they are a prefix of them.
C25_ReadSplitIndependent ==
  /\ client.fate = "stream" => client.log = SingleRead(client.wire).log
  /\ client.pc = "read" => IsPrefix(client.log, SingleRead(client.wire).log)

C25_Witness ==
  /\ client.fate = "stream"
  /\ Len(client.log) >= 2
  /\ client.buffer # <<>>

WellFormed(frames) == SelectSeq(frames, LAMBDA f : f # MalformedFrame)

\* the body without its malformed frames
WireWithoutMalformed ==
  IF client.frames # <<>> /\ client.frames[Len(client.frames)] = MalformedFrame
  THEN WireOf(WellFormed(client.frames), FALSE)
  ELSE WireOf(WellFormed(client.frames), client.cut)

\* C26: the callbacks made for a body are those made for the same body
\* with its malformed frames left out.
C26_MalformedSkipped ==
  client.fate = "stream" => client.log = SingleRead(WireWithoutMalformed).log

C26_Witness ==
  /\ client.fate = "stream"
  /\ Len(client.frames) >= 2
  /\ client.frames[1] = MalformedFrame
  /\ client.log # <<>>

\* C27: after stopStreaming no callback fires and isStreaming is false.
C27_NoCallbackAfterStop ==
  client.aborted => (Len(client.log) = client.logAtAbort /\ ~client.isStreaming)

\* C28: once the turn is settled no message of the chat carries a temp_
\* identifier.
C28_NoTempIdWhenSettled ==
  client.pc = "settled" =>
    \A i \in 1..Len(client.messages) : client.messages[i].id.prefix # TEMP_ID_PREFIX

(***************************************************************************)
(* Claims C31..C40                                                         *)
(***************************************************************************)
\* the messages the store holds from this request
OwnMessages == SelectSeq(messages, LAMBDA m : m.id >= turn.baseId)

SuppliedRole(r) == IF r.role = NoRole THEN "user" ELSE r.role

\* C31: a POST without the stream flag never calls the gateway, writes no
\* event and persists at most one message; when it is answered with 201
\* it persisted exactly one message, with the supplied role (user when
\* none is supplied) and the supplied content, and the body is that
\* message.
C31_NonStreamingPersistsOne ==
  ~turn.req.stream =>
    /\ turn.gwCalls = 0
    /\ turn.events = <<>>
    /\ Len(OwnMessages) <= 1
    /\ turn.status = 201 <=> Len(OwnMessages) = 1
    /\ turn.status = 201 =>
         /\ turn.ended
         /\ OwnMessages[1].role = SuppliedRole(turn.req)
         /\ OwnMessages[1].content = turn.req.content
         /\ OwnMessages[1].chatId = turn.req.chatId
         /\ turn.body = OwnMessages[1].id

C31_Witness ==
  /\ ~turn.req.stream
  /\ turn.req.role = "assistant"
  /\ turn.status = 201
  /\ Len(messages) = 3

\* the chat's rows up to this turn's user message, in creation order
RowsAtUserSave ==
  SelectSeq(messages, LAMBDA m : m.chatId = turn.req.chatId /\ m.id <= turn.userMsgId)

\* C32: the history submitted to the gateway is read after the user
\* message was persisted; it equals the chat's persisted messages in
\* creation order at that moment and ends with this turn's user message.
C32_HistoryInCreationOrder ==
  turn.gwCalls > 0 =>
    /\ turn.userMsgId # 0
    /\ turn.history = HistoryOf(RowsAtUserSave)
    /\ turn.history[Len(turn.history)] = [role |-> "user", content |-> turn.req.content]
    /\ turn.gwSent = AllMessages(turn.history)

\* C35: every persisted message belongs to an existing chat, and a
\* streaming turn whose chat was removed while it was in flight ends with
\* an error event.
C35_ReferentialIntegrity ==
  /\ \A i \in 1..Len(messages) : chats[messages[i].chatId].exists
  /\ (calls.midStream /\ turn.ended) =>
       /\ turn.events # <<>>
       /\ turn.events[Len(turn.events)].type = "error"

\* the positions of the log at which onComplete or onError was called
TerminalCalls == {i \in 1..Len(client.log) : client.log[i].cb \in {"onComplete", "onError"}}

\* C36: in one call of sendMessageStream at most one of onComplete and
\* onError fires, at most once, and no callback fires after it.
C36_TerminalCallbackOnceAndLast ==
  /\ Cardinality(TerminalCalls) <= 1
  /\ TerminalCalls \subseteq {Len(client.log)}

\* a terminal event was followed on the wire by further events, which
\* were not delivered
C36_Witness ==
  /\ client.pc = "settled"
  /\ Len(client.frames) >= 2
  /\ client.frames[1] = Frame(CompleteChunk(7))
  /\ client.frames[2] = Frame(ErrorChunk(<<"boom">>))
  /\ client.log = <<[cb |-> "onComplete", text |-> <<>>, id |-> 7]>>

\* the complete events of T carry the id of the assistant message T saved,
\* and that message holds the concatenation of T's own gateway fragments
OwnReply(T) ==
  /\ \A i \in 1..Len(T.events) :
       T.events[i].type = "complete" => (T.asstMsgId # 0 /\ T.events[i].messageId = T.asstMsgId)
  /\ T.asstMsgId # 0 =>
       \E j \in 1..Len(messages) :
         /\ messages[j].id = T.asstMsgId
         /\ messages[j].role = "assistant"
         /\ messages[j].content = Concat(ContentsOf(T.gwYielded))

\* C34: with two streaming turns in flight on one chat, every assistant
\* message was saved by exactly one of them and holds that turn's own
\* fragments, and each complete event carries the id of its own turn's
\* message.
C34_TurnsDoNotInterleave ==
  /\ OwnReply(turn)
  /\ OwnReply(calls.other)
  /\ turn.asstMsgId # 0 => turn.asstMsgId # calls.other.asstMsgId
  /\ \A j \in 1..Len(messages) :
       messages[j].role = "assistant" => messages[j].id \in {turn.asstMsgId, calls.other.asstMsgId}

\* both turns completed with different replies, and the turn that saved
\* its user message first saved its reply last
C34_Witness ==
  /\ HasType(turn.events, "complete") /\ HasType(calls.other.events, "complete")
  /\ turn.full # calls.other.full
  /\ Len(turn.full) = 2
  /\ turn.userMsgId < calls.other.userMsgId
  /\ turn.asstMsgId > calls.other.asstMsgId

\* C39: when no chat load is in flight and a chat is shown, it is the
\* selected chat.
C39_CurrentChatIsSelected ==
  (client.loads = <<>> /\ client.currentChat # [id |-> NoId]) =>
    client.currentChat.id = client.currentChatId

\* C37: when every sendMessage has resolved isStreaming is false, and
\* while the latest turn is in flight isStreaming is true: the end of an
\* earlier turn does not reset it.
C37_StreamingFollowsLatestTurn ==
  /\ (\A k \in 1..MaxSends : ~InFlight(client.turns[k])) => ~client.isStreaming
  /\ (client.sends > 0 /\ InFlight(client.turns[client.sends])) => client.isStreaming

\* C38: retryLastMessage issues a streaming request with the failed
\* content for the chat in which it failed.
C38_RetryTargetsFailedChat ==
  [][(client.lastFailedMessage # NoFailed /\ client'.lastFailedMessage = NoFailed) =>
       /\ client'.sends = client.sends + 1
       /\ client'.turns[client'.sends] = [pc |-> "fetch",
                                          chatId |-> client.lastFailedMessage.chatId,
                                          content |-> client.lastFailedMessage.content]]_vars

\* C40: when the createChat that handleSend awaits resolves, a streaming
\* request with the submitted content is issued for the new chat and no
\* 'No chat selected' error is set.
C40_AutoCreateThenSend ==
  [][(/\ client.creates # <<>>
      /\ Head(client.creates) # <<>>
      /\ client'.creates = Tail(client.creates)
      /\ client'.srv # client.srv) =>
       /\ client'.error # "No chat selected"
       /\ client'.sends = client.sends + 1
       /\ client'.turns[client'.sends] = [pc |-> "fetch", chatId |-> client'.currentChatId,
                                          content |-> Head(client.creates)]]_vars

\* the ids of a list of messages
IdsOf(msgs) == {msgs[i].id : i \in 1..Len(msgs)}

Occurrences(msgs, id) == Cardinality({i \in 1..Len(msgs) : msgs[i].id = id})

\* C33: the list selectChat's merge yields holds every fetched message
\* exactly once, keeps every local temp_ message that is not in the
\* fetch, holds no identifier twice and is sorted by creation time.
C33_MergeReconciles ==
  LET local == client.merge.local
      db == client.merge.db
      out == client.merge.out
  IN client.merge.done =>
       /\ \A i \in 1..Len(db) : Occurrences(out, db[i].id) = 1
       /\ \A i \in 1..Len(local) :
            (local[i].id.prefix = TEMP_ID_PREFIX /\ local[i].id \notin IdsOf(db)) =>
              \E j \in 1..Len(out) : out[j] = local[i]
       /\ \A j \in 1..Len(out) : Occurrences(out, out[j].id) = 1
       /\ \A j, k \in 1..Len(out) : j < k => out[j].createdAt <= out[k].createdAt

====
